---- MODULE Spec2Model ----
(***************************************************************************)
(* A model of the FastAPI agent service of                                 *)
(* tutorials/fastapi-agent/fastapi-agent-tutorial.ipynb: the SimpleAgent   *)
(* (blocking and streaming generation), the API-key dependency             *)
(* verify_api_key, the /agent and /agent/stream routes with and without    *)
(* that dependency, and the life of one StreamingResponse per accepted     *)
(* streaming request.                                                      *)
(*                                                                         *)
(* Text is a sequence of one-character strings, so that f-strings,         *)
(* str.split, json.dumps and the SSE framing are computed, not assumed.    *)
(***************************************************************************)
EXTENDS Integers, Sequences, FiniteSets

VARIABLES
    api_key,    \* os.environ.get("API_KEY"): an optional string, read per call
    req,        \* the request being dispatched and what came of it
    served,     \* number of requests received so far
    sessions    \* one record per StreamingResponse returned by stream_agent

vars == <<api_key, req, served, sessions>>

----------------------------------------------------------------------------
(* Bounds of the model.                                                    *)

\* Longest query text a client sends.
MaxQueryLen == 1

\* Requests received in one run.
MaxRequests == 2

----------------------------------------------------------------------------
(* Optional strings: Python's None and str.                                *)

None == [some |-> FALSE, val |-> <<>>]

Some(s) == [some |-> TRUE, val |-> s]

\* Python truthiness of an Optional[str]: None and "" are both falsy.
Truthy(o) == o.some /\ Len(o.val) > 0

----------------------------------------------------------------------------
(* Text helpers.                                                           *)

\* "".join(parts)
RECURSIVE Concat(_)
Concat(parts) ==
    IF parts = <<>> THEN <<>> ELSE Head(parts) \o Concat(Tail(parts))

\* needle in hay
Contains(hay, needle) ==
    \E i \in 0..(Len(hay) - Len(needle)) :
        SubSeq(hay, i + 1, i + Len(needle)) = needle

\* str.isspace for one character
IsSpace(c) == c \in {" ", "\n", "\t", "\r"}

\* str.split() with no separator: maximal runs of non-whitespace characters.
\* cur is the word being read, or <<>> between words.
RECURSIVE SplitFrom(_, _)
SplitFrom(s, cur) ==
    IF s = <<>>
    THEN IF cur = <<>> THEN <<>> ELSE <<cur>>
    ELSE IF IsSpace(Head(s))
         THEN IF cur = <<>>
              THEN SplitFrom(Tail(s), <<>>)
              ELSE <<cur>> \o SplitFrom(Tail(s), <<>>)
         ELSE SplitFrom(Tail(s), Append(cur, Head(s)))

split(s) == SplitFrom(s, <<>>)

----------------------------------------------------------------------------
(* SimpleAgent.                                                            *)

\* SimpleAgent.__init__: name="FastAPI Agent"
name == <<"F", "a", "s", "t", "A", "P", "I", " ", "A", "g", "e", "n", "t">>

\* An agent that numbers its answers: the text depends on how many requests
\* were served before.
generate_response_numbered(query) ==
    <<"A", "g", "e", "n", "t", " ">> \o name
    \o <<" ", "r", "e", "c", "e", "i", "v", "e", "d", ":", " ", "'">> \o query
    \o <<"'", "\n", "R", "e", "s", "p", "o", "n", "s", "e", " ">>
    \o (IF served = 0 THEN <<"1">> ELSE <<"2">>)

\* f"Agent {self.name} received: '{query}'\nResponse: This is a simulated agent response."
generate_response(query) ==
    <<"A", "g", "e", "n", "t", " ">> \o name
    \o <<" ", "r", "e", "c", "e", "i", "v", "e", "d", ":", " ", "'">> \o query
    \o <<"'", "\n", "R", "e", "s", "p", "o", "n", "s", "e", ":", " ",
         "T", "h", "i", "s", " ", "i", "s", " ", "a", " ",
         "s", "i", "m", "u", "l", "a", "t", "e", "d", " ",
         "a", "g", "e", "n", "t", " ",
         "r", "e", "s", "p", "o", "n", "s", "e", ".">>

\* prefix = f"Agent {self.name} thinking about: '{query}'\n"
prefix(query) ==
    <<"A", "g", "e", "n", "t", " ">> \o name
    \o <<" ", "t", "h", "i", "n", "k", "i", "n", "g", " ",
         "a", "b", "o", "u", "t", ":", " ", "'">> \o query
    \o <<"'", "\n">>

\* response = "This is a simulated agent response that streams token by token."
response ==
    <<"T", "h", "i", "s", " ", "i", "s", " ", "a", " ",
      "s", "i", "m", "u", "l", "a", "t", "e", "d", " ",
      "a", "g", "e", "n", "t", " ",
      "r", "e", "s", "p", "o", "n", "s", "e", " ",
      "t", "h", "a", "t", " ", "s", "t", "r", "e", "a", "m", "s", " ",
      "t", "o", "k", "e", "n", " ", "b", "y", " ",
      "t", "o", "k", "e", "n", ".">>

\* The tokens the for loop of generate_response_stream iterates over.
tokens == split(response)

\* The tokens yielded without their trailing separator.
NextFragmentBare(query, n) ==
    IF n = 0 THEN prefix(query) ELSE tokens[n]

\* The fragment generate_response_stream yields when it has yielded n before:
\* the prefix first, then tokens[n] + " ".
NextFragment(query, n) ==
    IF n = 0 THEN prefix(query) ELSE tokens[n] \o <<" ">>

\* The loop stopping one token short.
MoreTokensButLast(n) == n < Len(tokens)

\* Whether the generator, having yielded n fragments (the prefix and n - 1
\* tokens), has another loop iteration to run, and so awaits asyncio.sleep
\* before its next yield.
MoreTokens(n) == n - 1 < Len(tokens)

----------------------------------------------------------------------------
(* The stream encoder of event_generator, and the client that reads it.    *)

\* json.dumps escapes of the characters a str may hold (ensure_ascii).
EscapeChar(c) ==
    CASE c = "\"" -> <<"\\", "\"">>
      [] c = "\\" -> <<"\\", "\\">>
      [] c = "\n" -> <<"\\", "n">>
      [] c = "\r" -> <<"\\", "r">>
      [] c = "\t" -> <<"\\", "t">>
      [] OTHER -> <<c>>

RECURSIVE Escape(_)
Escape(s) ==
    IF s = <<>> THEN <<>> ELSE EscapeChar(Head(s)) \o Escape(Tail(s))

\* data = json.dumps({"token": token})
json_dumps(token) ==
    <<"{", "\"", "t", "o", "k", "e", "n", "\"", ":", " ", "\"">>
    \o Escape(token) \o <<"\"", "}">>

\* The token framed as it is, without json.dumps.
event_frame_raw(token) ==
    <<"d", "a", "t", "a", ":", " ">> \o token \o <<"\n", "\n">>

\* yield f"data: {data}\n\n"
event_frame(token) ==
    <<"d", "a", "t", "a", ":", " ">> \o json_dumps(token) \o <<"\n", "\n">>

\* The event with the token as its data, without json.dumps.
sse_event_raw(token) ==
    <<"d", "a", "t", "a", ":", " ">> \o token \o <<"\r", "\n", "\r", "\n">>

\* yield {"data": json.dumps({"token": token})}, as EventSourceResponse
\* writes the dict: the data field on one line, then its blank line, with
\* the package's line separator.
sse_event(token) ==
    <<"d", "a", "t", "a", ":", " ">> \o json_dumps(token)
    \o <<"\r", "\n", "\r", "\n">>

\* The character a JSON escape \c stands for.
UnescapeChar(c) ==
    CASE c = "n" -> "\n"
      [] c = "r" -> "\r"
      [] c = "t" -> "\t"
      [] OTHER -> c

\* json.loads of the inside of a JSON string literal.
RECURSIVE Unescape(_)
Unescape(s) ==
    IF s = <<>> THEN <<>>
    ELSE IF Head(s) = "\\" /\ Len(s) >= 2
         THEN <<UnescapeChar(s[2])>> \o Unescape(Tail(Tail(s)))
         ELSE <<Head(s)>> \o Unescape(Tail(s))

\* The first line of a chunk, as response.iter_lines() cuts it.
RECURSIVE FirstLine(_)
FirstLine(s) ==
    IF s = <<>> \/ Head(s) = "\n" THEN <<>>
    ELSE <<Head(s)>> \o FirstLine(Tail(s))

\* The test client: line.startswith('data: '), json.loads(line[6:])["token"].
\* None when the write is not one well-formed token frame.
client_token(write) ==
    LET line == FirstLine(write)
        open == <<"d", "a", "t", "a", ":", " ",
                  "{", "\"", "t", "o", "k", "e", "n", "\"", ":", " ", "\"">>
        shut == <<"\"", "}">>
        n    == Len(line)
    IN  IF /\ n >= Len(open) + Len(shut)
           /\ SubSeq(line, 1, Len(open)) = open
           /\ SubSeq(line, n - 1, n) = shut
           /\ write = line \o <<"\n", "\n">>
        THEN Some(Unescape(SubSeq(line, Len(open) + 1, n - 2)))
        ELSE None

----------------------------------------------------------------------------
(* The API-key dependency.                                                 *)

Allow == "True"
Unauthorized == "401"
Forbidden == "403"
NotRun == "NotRun"

\* verify_api_key without its check for a missing header.
verify_api_key_no401(secret, x_api_key) ==
    IF ~Truthy(secret) THEN Allow
    ELSE IF x_api_key.val # secret.val THEN Forbidden
    ELSE Allow

\* verify_api_key: os.environ.get("API_KEY") against the X-API-Key header.
\* "True" is the return value; "401" and "403" are the HTTPException raised.
verify_api_key(secret, x_api_key) ==
    IF ~Truthy(secret) THEN Allow
    ELSE IF ~Truthy(x_api_key) THEN Unauthorized
    ELSE IF x_api_key.val # secret.val THEN Forbidden
    ELSE Allow

----------------------------------------------------------------------------
(* Inputs.                                                                 *)

\* All strings over alphabet of length at most n.
StringsUpTo(alphabet, n) ==
    UNION {[1..k -> alphabet] : k \in 0..n}

\* Query texts: QueryRequest.query is any str, the empty one included; the
\* quote is a character json.dumps has to escape.
Queries == StringsUpTo({"p", "\""}, MaxQueryLen)

\* The query texts of the clients that run concurrently.
ConcurrentQueries == {<<>>, <<"\"">>}

\* Values of the API_KEY environment variable: unset, empty, or a secret.
Secrets == {None, Some(<<>>), Some(<<"s">>)}

\* Values of the X-API-Key header: absent, empty, the secret, another key.
HeaderKeys == {None, Some(<<>>), Some(<<"s">>), Some(<<"w">>)}

----------------------------------------------------------------------------
(* State.                                                                  *)

\* The routes: the full application's, and the ones redefined with
\* Depends(verify_api_key).
OpenRoutes == {"query_agent", "stream_agent"}
ProtectedRoutes == {"query_agent_auth", "stream_agent_auth"}

\* No request in flight yet.
Idle == [phase |-> "idle", route |-> "none", query |-> <<>>, key |-> None,
         gate |-> NotRun, status |-> 0, core |-> 0, body |-> None, sid |-> 0]

\* The StreamingResponse stream_agent returns: event_generator() not yet
\* iterated, nothing written.
NewSession(query) ==
    [query  |-> query,     \* request.query, captured by event_generator
     pos    |-> 0,         \* fragments generate_response_stream has yielded
     core   |-> 0,         \* calls of agent.generate_response_stream
     state  |-> "Active",
     timer  |-> FALSE,     \* an asyncio.sleep of this session is pending
     sleeps |-> 0,         \* awaits of asyncio.sleep the generator has made
     frags  |-> <<>>,      \* the tokens event_generator received, in order
     frames |-> <<>>,      \* the writes made to the transport, in order
     closed |-> FALSE,     \* the response body has ended
     sse    |-> FALSE]     \* the response is an EventSourceResponse

\* The EventSourceResponse stream_agent_sse returns, not yet iterated.
NewSseSession(query) == [NewSession(query) EXCEPT !.sse = TRUE]

Init ==
    /\ api_key \in Secrets
    /\ req = Idle
    /\ served = 0
    /\ sessions = <<>>

\* A new request can be received: none is between its dependency and its
\* handler, and the run's budget is not spent.
CanReceive == req.phase # "resolved" /\ served < MaxRequests

----------------------------------------------------------------------------
(* The open routes.                                                        *)

\* query_agent (full application): response = agent.generate_response(...)
query_agent(q) ==
    /\ CanReceive
    /\ req' = [phase |-> "done", route |-> "query_agent", query |-> q,
               key |-> None, gate |-> NotRun, status |-> 200, core |-> 1,
               body |-> Some(generate_response(q)), sid |-> 0]
    /\ served' = served + 1
    /\ UNCHANGED <<api_key, sessions>>

\* stream_agent (full application): returns StreamingResponse(event_generator())
stream_agent(q) ==
    /\ CanReceive
    /\ sessions' = Append(sessions, NewSession(q))
    /\ req' = [phase |-> "done", route |-> "stream_agent", query |-> q,
               key |-> None, gate |-> NotRun, status |-> 200, core |-> 0,
               body |-> None, sid |-> Len(sessions) + 1]
    /\ served' = served + 1
    /\ UNCHANGED api_key

\* stream_agent_sse: returns EventSourceResponse(event_generator())
stream_agent_sse(q) ==
    /\ CanReceive
    /\ sessions' = Append(sessions, NewSseSession(q))
    /\ req' = [phase |-> "done", route |-> "stream_agent_sse", query |-> q,
               key |-> None, gate |-> NotRun, status |-> 200, core |-> 0,
               body |-> None, sid |-> Len(sessions) + 1]
    /\ served' = served + 1
    /\ UNCHANGED api_key

----------------------------------------------------------------------------
(* The routes with Depends(verify_api_key).                                *)

\* The handler called whatever the dependency did.
AfterDependencyIgnored(gate) == "resolved"

\* What the framework does with the dependency's outcome: the handler is
\* called only when verify_api_key returned; an HTTPException ends the
\* request with its status code.
AfterDependency(gate) == IF gate = Allow THEN "resolved" ELSE "done"

StatusOf(gate) ==
    CASE gate = Unauthorized -> 401
      [] gate = Forbidden -> 403
      [] OTHER -> 0

\* The body of the health check as the framework serialises the dict.
health_body ==
    <<"{", "\"", "s", "t", "a", "t", "u", "s", "\"", ":", "\"", "o", "k", "\"",
      ",", "\"", "m", "e", "s", "s", "a", "g", "e", "\"", ":", "\"",
      "A", "P", "I", " ", "i", "s", " ",
      "o", "p", "e", "r", "a", "t", "i", "o", "n", "a", "l", "\"", "}">>

\* The health check put behind the API-key dependency with the other routes.
health_check_gated(k) ==
    /\ CanReceive
    /\ LET gate == verify_api_key(api_key, k)
       IN  req' = [phase |-> "done", route |-> "health_check", query |-> <<>>,
                   key |-> k, gate |-> gate,
                   status |-> IF gate = Allow THEN 200 ELSE StatusOf(gate),
                   core |-> 0,
                   body |-> IF gate = Allow THEN Some(health_body) ELSE None,
                   sid |-> 0]
    /\ served' = served + 1
    /\ UNCHANGED <<api_key, sessions>>

\* health_check: GET /health, declared without Depends(verify_api_key) and
\* without a request body; the X-API-Key header k a client sends along is
\* read by nothing. return {"status": "ok", "message": "API is operational"}
health_check(k) ==
    /\ CanReceive
    /\ req' = [phase |-> "done", route |-> "health_check", query |-> <<>>,
               key |-> k, gate |-> NotRun, status |-> 200, core |-> 0,
               body |-> Some(health_body), sid |-> 0]
    /\ served' = served + 1
    /\ UNCHANGED <<api_key, sessions>>

\* A dependency that, finding no secret configured, keeps the key of the
\* request as the secret from then on.
DependsAdoptsKey(route, q, k) ==
    /\ CanReceive
    /\ LET gate == verify_api_key(api_key, k)
       IN  req' = [phase |-> AfterDependency(gate), route |-> route,
                   query |-> q, key |-> k, gate |-> gate,
                   status |-> StatusOf(gate), core |-> 0, body |-> None,
                   sid |-> 0]
    /\ served' = served + 1
    /\ api_key' = IF Truthy(api_key) THEN api_key ELSE k
    /\ UNCHANGED sessions

\* A request to a protected route arrives and its dependency is resolved.
Depends(route, q, k) ==
    /\ CanReceive
    /\ LET gate == verify_api_key(api_key, k)
       IN  req' = [phase |-> AfterDependency(gate), route |-> route,
                   query |-> q, key |-> k, gate |-> gate,
                   status |-> StatusOf(gate), core |-> 0, body |-> None,
                   sid |-> 0]
    /\ served' = served + 1
    /\ UNCHANGED <<api_key, sessions>>

\* query_agent with authorized: bool = Depends(verify_api_key)
query_agent_auth ==
    /\ req.phase = "resolved"
    /\ req.route = "query_agent_auth"
    /\ req' = [req EXCEPT !.phase = "done", !.status = 200, !.core = 1,
                          !.body = Some(generate_response(req.query))]
    /\ UNCHANGED <<api_key, served, sessions>>

\* stream_agent with Depends(verify_api_key): the body is a docstring and a
\* comment, so the handler returns None, which is served as the JSON null.
stream_agent_auth ==
    /\ req.phase = "resolved"
    /\ req.route = "stream_agent_auth"
    /\ req' = [req EXCEPT !.phase = "done", !.status = 200,
                          !.body = Some(<<"n", "u", "l", "l">>)]
    /\ UNCHANGED <<api_key, served, sessions>>

----------------------------------------------------------------------------
(* One streaming session: StreamingResponse iterating event_generator().   *)

\* A turn of a generator whose loop awaits a second time after each token
\* it has yielded, the last one included.
TurnAwaitAfterYield(s) ==
    LET token == NextFragment(s.query, s.pos)
        n     == s.pos + 1
    IN  [s EXCEPT !.pos = n,
                  !.core = 1,
                  !.frags = Append(@, token),
                  !.frames = Append(@, IF s.sse THEN sse_event(token)
                                       ELSE event_frame(token)),
                  !.timer = MoreTokens(n),
                  !.sleeps = IF n = 1 THEN @ + 1
                             ELSE IF MoreTokens(n) THEN @ + 2 ELSE @ + 1,
                  !.state = IF MoreTokens(n) THEN "Active" ELSE "Completed",
                  !.closed = ~MoreTokens(n)]

\* One scheduling turn of the session: generate_response_stream runs to its
\* next yield, event_generator frames the token, StreamingResponse writes
\* the frame, and the generator runs on to its next await asyncio.sleep, or
\* to its end.
Turn(s) ==
    LET token == NextFragment(s.query, s.pos)
        n     == s.pos + 1
    IN  [s EXCEPT !.pos = n,
                  !.core = 1,
                  !.frags = Append(@, token),
                  !.frames = Append(@, IF s.sse THEN sse_event(token)
                                       ELSE event_frame(token)),
                  !.timer = MoreTokens(n),
                  !.sleeps = IF MoreTokens(n) THEN @ + 1 ELSE @,
                  !.state = IF MoreTokens(n) THEN "Active" ELSE "Completed",
                  !.closed = ~MoreTokens(n)]

\* A turn that reads the query from one place shared by all sessions, where
\* the session that runs has put its own.
RunTurnSharedQuery(ss, i) ==
    [j \in DOMAIN ss |->
        IF j = i THEN Turn(ss[j]) ELSE [ss[j] EXCEPT !.query = ss[i].query]]

\* A turn of session i among the sessions ss: each call of stream_agent has
\* its own event_generator closure over its own request, and each call of
\* generate_response_stream its own locals; the module-level agent holds
\* only its name.
RunTurn(ss, i) == [ss EXCEPT ![i] = Turn(@)]

\* The first iteration of the response body: the generator starts.
Start(i) ==
    /\ ~sessions[i].closed
    /\ sessions[i].pos = 0
    /\ ~sessions[i].timer
    /\ sessions' = RunTurn(sessions, i)
    /\ UNCHANGED <<api_key, req, served>>

\* The pending asyncio.sleep(0.1) of session i elapses: a wake-up needs
\* nothing but the pending timer.
Wake(i) ==
    /\ sessions[i].timer
    /\ sessions' = RunTurn(sessions, i)
    /\ UNCHANGED <<api_key, req, served>>

\* The cancellation that leaves the sleep's timer armed.
CancelledTimerLeft(s) ==
    [s EXCEPT !.state = "Cancelled", !.closed = TRUE]

\* The task iterating the body is cancelled: CancelledError is raised at
\* the await the generator is suspended on, which cancels the sleep's timer;
\* nothing catches it, so the iteration ends there.
Cancelled(s) ==
    [s EXCEPT !.state = "Cancelled", !.timer = FALSE, !.closed = TRUE]

\* The client of session i disconnects and the server sees it at once: the
\* response's task is cancelled where it waits.
Cancel(i) ==
    /\ sessions[i].state = "Active"
    /\ sessions' = [sessions EXCEPT ![i] = Cancelled(@)]
    /\ UNCHANGED <<api_key, req, served>>

\* The disconnect seen only at the next write: the generator runs to its
\* next yield, the write of that frame fails, and the response ends with
\* the token produced and not delivered.
CancelledAtSend(s) ==
    [s EXCEPT !.pos = @ + 1,
              !.core = 1,
              !.frags = Append(@, NextFragment(s.query, s.pos)),
              !.state = "Cancelled",
              !.timer = FALSE,
              !.closed = TRUE]

\* The client of session i has gone when the server next writes to it.
CancelAtSend(i) ==
    /\ sessions[i].state = "Active"
    /\ sessions' = [sessions EXCEPT ![i] = CancelledAtSend(@)]
    /\ UNCHANGED <<api_key, req, served>>

\* The fault that leaves the sleep's timer armed.
FaultedTimerLeft(s) ==
    [s EXCEPT !.state = "Faulted", !.core = 1, !.closed = TRUE]

\* generate_response_stream raises in the turn that was to produce its next
\* fragment: event_generator has no try/except, so the exception leaves the
\* body iterator, nothing more is written and the response ends.
Faulted(s) ==
    [s EXCEPT !.state = "Faulted", !.core = 1, !.timer = FALSE,
              !.closed = TRUE]

\* The exception of one session ending every response in progress.
FaultEndsAll(i) ==
    /\ sessions[i].state = "Active"
    /\ sessions' = [j \in DOMAIN sessions |->
                       IF sessions[j].state = "Active"
                       THEN Faulted(sessions[j]) ELSE sessions[j]]
    /\ UNCHANGED <<api_key, req, served>>

\* The agent of session i raises where it would have yielded.
Fault(i) ==
    /\ sessions[i].state = "Active"
    /\ sessions' = [sessions EXCEPT ![i] = Faulted(@)]
    /\ UNCHANGED <<api_key, req, served>>

----------------------------------------------------------------------------
(* The service: any number of clients, on all its routes.                  *)

Next ==
    \/ \E q \in ConcurrentQueries : query_agent(q)
    \/ \E q \in ConcurrentQueries : stream_agent(q)
    \/ \E k \in HeaderKeys : health_check(k)
    \/ \E r \in ProtectedRoutes, q \in ConcurrentQueries, k \in HeaderKeys :
           Depends(r, q, k)
    \/ query_agent_auth
    \/ stream_agent_auth
    \/ \E i \in DOMAIN sessions : Start(i)
    \/ \E i \in DOMAIN sessions : Wake(i)
    \/ \E i \in DOMAIN sessions : Cancel(i)
    \/ \E i \in DOMAIN sessions : CancelAtSend(i)

Spec == Init /\ [][Next]_vars

(* One client at a time on the open routes, over all query texts: the      *)
(* agent's two generation modes and one streaming session seen alone.      *)

SoloNext ==
    \/ \E q \in Queries : query_agent(q)
    \/ \E q \in Queries : sessions = <<>> /\ stream_agent(q)
    \/ \E i \in DOMAIN sessions : Start(i)
    \/ \E i \in DOMAIN sessions : Wake(i)
    \/ \E i \in DOMAIN sessions : Cancel(i)
    \/ \E i \in DOMAIN sessions : CancelAtSend(i)

SpecSolo == Init /\ [][SoloNext]_vars

(* The same with an agent that may raise while it generates (SimpleAgent   *)
(* stands for any agent; its own generator has no statement that raises).  *)

FaultNext ==
    \/ SoloNext
    \/ \E i \in DOMAIN sessions : Fault(i)

SpecFault == Init /\ [][FaultNext]_vars

(* The streaming routes with clients that stay connected and an agent that *)
(* does not raise. The event loop runs every ready task and fires every    *)
(* timer: the first iteration of a response body, the wake-up of a pending *)
(* asyncio.sleep and the handler of a resolved request are not postponed   *)
(* for ever.                                                               *)

StayNext ==
    \/ \E q \in ConcurrentQueries : stream_agent(q)
    \/ \E q \in ConcurrentQueries, k \in HeaderKeys :
           Depends("stream_agent_auth", q, k)
    \/ stream_agent_auth
    \/ \E i \in DOMAIN sessions : Start(i)
    \/ \E i \in DOMAIN sessions : Wake(i)

EventLoopRuns ==
    /\ WF_vars(stream_agent_auth)
    /\ \A i \in 1..MaxRequests :
           /\ WF_vars(i \in DOMAIN sessions /\ Start(i))
           /\ WF_vars(i \in DOMAIN sessions /\ Wake(i))

SpecStay == Init /\ [][StayNext]_vars /\ EventLoopRuns

(* Concurrent streaming clients that may go away, served by an agent that  *)
(* may raise, under the same scheduling.                                   *)

\* The query of the n-th client: the clients take the two concurrent
\* queries in turn.
LocalQuery(n) == IF n % 2 = 1 THEN <<>> ELSE <<"\"">>

\* The open routes read no secret: the service runs with none configured.
LocalInit == Init /\ api_key = None

LocalNext ==
    \/ stream_agent(LocalQuery(Len(sessions) + 1))
    \/ \E i \in DOMAIN sessions : Start(i)
    \/ \E i \in DOMAIN sessions : Wake(i)
    \/ \E i \in DOMAIN sessions : Cancel(i)
    \/ \E i \in DOMAIN sessions : CancelAtSend(i)
    \/ \E i \in DOMAIN sessions : Fault(i)

SpecLocal == LocalInit /\ [][LocalNext]_vars /\ EventLoopRuns

(* The two streaming endpoints side by side: at most one session of each,  *)
(* over all query texts.                                                   *)

SseNext ==
    \/ \E q \in Queries :
           (\A i \in DOMAIN sessions : sessions[i].sse) /\ stream_agent(q)
    \/ \E q \in Queries :
           (\A i \in DOMAIN sessions : ~sessions[i].sse)
               /\ stream_agent_sse(q)
    \/ \E i \in DOMAIN sessions : Start(i)
    \/ \E i \in DOMAIN sessions : Wake(i)
    \/ \E i \in DOMAIN sessions : Cancel(i)
    \/ \E i \in DOMAIN sessions : CancelAtSend(i)

SpecSse == LocalInit /\ [][SseNext]_vars

----------------------------------------------------------------------------
(* The API-key decision.                                                   *)

\* The decision table as first stated: a secret is configured when the
\* variable is set, a key is presented when the header is there, and the
\* empty string is a string like any other.
AuthAsStated(secret, key) ==
    IF ~secret.some THEN Allow
    ELSE IF ~key.some THEN Unauthorized
    ELSE IF key.val # secret.val THEN Forbidden
    ELSE Allow

\* C1 as stated: verify_api_key decides by presence alone, so that
\* Unauthorized is returned only when no key was presented and Forbidden
\* for every presented key, the empty one included, that differs from the
\* configured secret.
C1_DecisionByPresence ==
    req.route \in ProtectedRoutes =>
        req.gate = AuthAsStated(api_key, req.key)

\* C1: verify_api_key treats the empty string as absent, for the secret and
\* for the key: no secret or an empty one => Allow; a non-empty secret and
\* a key absent or empty => 401; a non-empty secret and a non-empty key that
\* differs => 403; a non-empty secret and the key equal to it => Allow.
C1_DecisionByTruthiness ==
    req.route \in ProtectedRoutes =>
        LET noSecret == api_key = None \/ api_key = Some(<<>>)
            noKey    == req.key = None \/ req.key = Some(<<>>)
        IN  /\ req.gate \in {Allow, Unauthorized, Forbidden}
            /\ req.gate = Allow <=> (noSecret \/ (~noKey /\ req.key = api_key))
            /\ req.gate = Unauthorized <=> (~noSecret /\ noKey)
            /\ req.gate = Forbidden <=>
                   (~noSecret /\ ~noKey /\ req.key # api_key)

\* A secret is configured and the header is presented empty: the gate has
\* answered 401.
C1_Witness ==
    /\ req.route \in ProtectedRoutes
    /\ api_key = Some(<<"s">>)
    /\ req.key = Some(<<>>)
    /\ req.gate = Unauthorized

----------------------------------------------------------------------------
(* The gate before the agent.                                              *)

\* C2: on a protected route the dependency has run to completion before
\* the handler, and so before any call of the agent; when it raised 401 or
\* 403 the request ends with that status, the agent is never called for it
\* and no response text and no streaming session is produced.
C2_GateBeforeCore ==
    req.route \in ProtectedRoutes =>
        /\ req.gate # NotRun
        /\ req.phase = "resolved" => (req.gate = Allow /\ req.core = 0)
        /\ (req.core > 0 \/ req.body # None \/ req.sid # 0) =>
               req.gate = Allow
        /\ req.gate \in {Unauthorized, Forbidden} =>
               /\ req.phase = "done"
               /\ req.status = StatusOf(req.gate)
               /\ req.core = 0
               /\ req.body = None
               /\ req.sid = 0

\* A request to the protected /agent route was refused with 403.
C2_Witness ==
    /\ req.route = "query_agent_auth"
    /\ req.phase = "done"
    /\ req.gate = Forbidden
    /\ req.status = 403

----------------------------------------------------------------------------
(* The two generation modes.                                               *)

StreamText(query) ==
    <<"A", "g", "e", "n", "t", " ",
      "F", "a", "s", "t", "A", "P", "I", " ", "A", "g", "e", "n", "t", " ",
      "t", "h", "i", "n", "k", "i", "n", "g", " ",
      "a", "b", "o", "u", "t", ":", " ", "'">> \o query \o <<"'", "\n">>
    \o response \o <<" ">>

----------------------------------------------------------------------------
(* Frames on the transport.                                                *)

\* C4: at every state of a session the writes made are a prefix of the
\* frames of its fragments, one write per fragment: there are never more
\* writes than fragments produced (and at most one fragment, the one whose
\* write failed, has none), and the k-th write is the frame of the k-th
\* fragment the generator produces for the session's query: "data: ", the
\* JSON object {"token": <fragment>} and a blank line, which the client
\* reads back as that fragment.
C4_FramesArePrefix ==
    \A i \in DOMAIN sessions :
        LET s == sessions[i]
        IN  /\ Len(s.frames) <= Len(s.frags)
            /\ Len(s.frags) <= Len(s.frames) + 1
            /\ Len(s.frags) > Len(s.frames) => s.state = "Cancelled"
            /\ Len(s.frames) <= 1 + Len(tokens)
            /\ \A k \in 1..Len(s.frags) :
                   s.frags[k] = NextFragment(s.query, k - 1)
            /\ \A k \in 1..Len(s.frames) :
                   client_token(s.frames[k]) = Some(s.frags[k])

\* A session whose query holds a quote has written several frames and is
\* still running.
C4_Witness ==
    \E i \in DOMAIN sessions :
        /\ sessions[i].state = "Active"
        /\ Contains(sessions[i].query, <<"\"">>)
        /\ Len(sessions[i].frames) >= 3

----------------------------------------------------------------------------
(* The fragment sequence.                                                  *)

\* The words of the streaming body, written out.
BodyWords ==
    << <<"T", "h", "i", "s">>, <<"i", "s">>, <<"a">>,
       <<"s", "i", "m", "u", "l", "a", "t", "e", "d">>,
       <<"a", "g", "e", "n", "t">>,
       <<"r", "e", "s", "p", "o", "n", "s", "e">>,
       <<"t", "h", "a", "t">>, <<"s", "t", "r", "e", "a", "m", "s">>,
       <<"t", "o", "k", "e", "n">>, <<"b", "y">>,
       <<"t", "o", "k", "e", "n", ".">> >>

\* C8: a complete stream has 1 + wordCount(body) fragments and no session
\* ever has more; the first fragment is the prefix and contains the query
\* text, and fragment k + 1 is the k-th word of the body followed by one
\* space, the last fragment being the last word.
C8_FragmentSequence ==
    \A i \in DOMAIN sessions :
        LET s == sessions[i]
            n == Len(s.frags)
        IN  /\ n <= 1 + Len(BodyWords)
            /\ s.state = "Completed" =>
                   (n = 1 + Len(BodyWords) /\ Len(s.frames) = n)
            /\ (s.state = "Active" /\ s.timer) => n <= Len(BodyWords)
            /\ n >= 1 => /\ s.frags[1] = prefix(s.query)
                         /\ Contains(s.frags[1], s.query)
            /\ \A k \in 1..(n - 1) : s.frags[k + 1] = BodyWords[k] \o <<" ">>

\* A complete stream for a non-empty query, ending with the last word.
C8_Witness ==
    \E i \in DOMAIN sessions :
        /\ sessions[i].state = "Completed"
        /\ sessions[i].query # <<>>
        /\ sessions[i].frags[Len(sessions[i].frags)] =
               <<"t", "o", "k", "e", "n", ".", " ">>

----------------------------------------------------------------------------
(* Cancellation.                                                           *)

\* C5: when a session with N frames delivered is cancelled while Active,
\* the cancelling step writes no frame (fragment N + 1 is not delivered),
\* lets the generator run at most to its next yield, and leaves no sleep of
\* the session pending; from then on the session does not change: no
\* fragment is produced, no frame written and no timer armed after it is
\* Cancelled.
C5_CancelStopsStream ==
    [][\A i \in DOMAIN sessions :
          /\ (sessions[i].state = "Active"
                  /\ sessions'[i].state = "Cancelled") =>
                 /\ sessions'[i].frames = sessions[i].frames
                 /\ sessions'[i].pos <= sessions[i].pos + 1
                 /\ Len(sessions'[i].frags) = sessions'[i].pos
                 /\ ~sessions'[i].timer
                 /\ sessions'[i].closed
          /\ sessions[i].state = "Cancelled" =>
                 /\ ~sessions[i].timer
                 /\ sessions'[i] = sessions[i]]_vars

\* A session cancelled in mid-stream, some fragments delivered and some
\* not, while another session is running.
C5_Witness ==
    \E i, j \in DOMAIN sessions :
        /\ sessions[i].state = "Cancelled"
        /\ Len(sessions[i].frames) > 1
        /\ Len(sessions[i].frames) < 1 + Len(tokens)
        /\ sessions[j].state = "Active"
        /\ Len(sessions[j].frames) > Len(sessions[i].frames)

----------------------------------------------------------------------------
(* A raising agent.                                                        *)

\* A write that is not a token frame: what a terminal error frame would be.
IsErrorFrame(write) == write # <<>> /\ client_token(write) = None

\* C6 as stated: a session that ended Faulted has, after the frames of the
\* fragments delivered before the fault, a last write that is an explicit
\* error frame, made before the transport was closed.
C6_ErrorFrameOnFault ==
    \A i \in DOMAIN sessions :
        (sessions[i].state = "Faulted" /\ sessions[i].closed) =>
            /\ Len(sessions[i].frames) = Len(sessions[i].frags) + 1
            /\ IsErrorFrame(sessions[i].frames[Len(sessions[i].frames)])

----------------------------------------------------------------------------
(* Session states.                                                         *)

SessionStates == {"Active", "Completed", "Cancelled", "Faulted"}

TerminalStates == {"Completed", "Cancelled", "Faulted"}

\* C7: every session is in one of the four states; a step changes a
\* session's state only from Active to a terminal state; a session in a
\* terminal state is closed, is never removed and never changes again: it
\* does not become Active, does not move to another terminal state and
\* gets no further frame.
C7_SessionLifecycle ==
    [][/\ Len(sessions') >= Len(sessions)
       /\ \A i \in DOMAIN sessions' : sessions'[i].state \in SessionStates
       /\ \A i \in DOMAIN sessions :
              /\ sessions[i].state \in SessionStates
              /\ sessions'[i].state # sessions[i].state =>
                     /\ sessions[i].state = "Active"
                     /\ sessions'[i].state \in TerminalStates
              /\ sessions[i].state \in TerminalStates =>
                     /\ sessions[i].closed
                     /\ sessions'[i] = sessions[i]
              /\ sessions[i].state = "Active" => ~sessions[i].closed]_vars

\* A session that has faulted after some frames, with a later request
\* served after it.
C7_Witness ==
    \E i \in DOMAIN sessions :
        /\ sessions[i].state = "Faulted"
        /\ Len(sessions[i].frames) > 1
        /\ req.route = "query_agent"

----------------------------------------------------------------------------
(* Concurrent sessions.                                                    *)

\* C9: a step changes at most one session; it leaves the query of that
\* session as it is, and the frames the session has after the step are the
\* frames it had, followed by at most the one frame its own query and its
\* own position give, as when it runs alone.
C9_SessionsIndependent ==
    [][/\ \A i, j \in DOMAIN sessions :
              i # j => (sessions'[i] = sessions[i]
                            \/ sessions'[j] = sessions[j])
       /\ \A i \in DOMAIN sessions :
              /\ sessions'[i].query = sessions[i].query
              /\ \/ sessions'[i].frames = sessions[i].frames
                 \/ sessions'[i].frames =
                        Append(sessions[i].frames,
                               event_frame(NextFragment(sessions[i].query,
                                               Len(sessions[i].frames))))
       /\ \A i \in DOMAIN sessions' \ DOMAIN sessions :
              sessions'[i].frames = <<>>]_vars

\* Two sessions with different queries, interleaved: both have frames and
\* neither is ahead by a whole stream.
C9_Witness ==
    \E i, j \in DOMAIN sessions :
        /\ sessions[i].query # sessions[j].query
        /\ sessions[i].state = "Active"
        /\ sessions[j].state = "Active"
        /\ Len(sessions[i].frames) >= 2
        /\ Len(sessions[j].frames) > Len(sessions[i].frames)

----------------------------------------------------------------------------
(* Empty queries.                                                          *)

\* C10 as stated: a request whose query text is empty is rejected as a
\* client-input fault on the synchronous and on the streaming route; the
\* agent is not called for it, and it gets no response text and no
\* streaming session.
C10_EmptyQueryRejected ==
    /\ (req.phase = "done" /\ req.query = <<>>
            /\ req.route \in OpenRoutes \cup ProtectedRoutes) =>
           /\ req.status = 422
           /\ req.core = 0
           /\ req.body = None
           /\ req.sid = 0
    /\ \A i \in DOMAIN sessions : sessions[i].query # <<>>

----------------------------------------------------------------------------
(* The health check.                                                       *)

\* C11: every health check answers 200 with the status "ok" and without the
\* API-key dependency having run, whatever secret is configured, whatever
\* X-API-Key header came with it and whatever the streaming sessions are
\* doing.
C11_HealthAlwaysOk ==
    req.route = "health_check" =>
        /\ req.phase = "done"
        /\ req.status = 200
        /\ req.gate = NotRun
        /\ req.body.some
        /\ Contains(req.body.val,
                    <<"\"", "s", "t", "a", "t", "u", "s", "\"", ":",
                      "\"", "o", "k", "\"">>)

\* A secret is configured, the health check came without a key while one
\* streaming session had been cancelled midway, and it answered 200.
C11_Witness ==
    /\ req.route = "health_check"
    /\ req.status = 200
    /\ api_key = Some(<<"s">>)
    /\ req.key = None
    /\ \E i \in DOMAIN sessions :
           sessions[i].state = "Cancelled" /\ Len(sessions[i].frames) >= 2

----------------------------------------------------------------------------
(* The blocking answer.                                                    *)

\* The text of a blocking answer, written out.
BlockingText(query) ==
    Concat(<<<<"A", "g", "e", "n", "t", " ", "F", "a", "s", "t", "A", "P", "I",
               " ", "A", "g", "e", "n", "t", " ", "r", "e", "c", "e", "i", "v",
               "e", "d", ":", " ", "'">>,
             query,
             <<"'", "\n", "R", "e", "s", "p", "o", "n", "s", "e", ":", " ", "T",
               "h", "i", "s", " ", "i", "s", " ", "a", " ", "s", "i", "m", "u",
               "l", "a", "t", "e", "d", " ", "a", "g", "e", "n", "t", " ", "r",
               "e", "s", "p", "o", "n", "s", "e", ".">>>>)

\* C12: the answer of generate_response is a function of the query alone:
\* every answer a blocking route has returned, at any point of a run and
\* whatever the streaming sessions are doing, is the one text
\* BlockingText(query), which holds the query and the marker "Agent"; so
\* two calls with the same query return identical text.
C12_BlockingAnswerIsFunctionOfQuery ==
    (req.phase = "done" /\ req.core = 1
        /\ req.route \in {"query_agent", "query_agent_auth"}) =>
        /\ req.body = Some(BlockingText(req.query))
        /\ Contains(req.body.val, req.query)
        /\ Contains(req.body.val, <<"A", "g", "e", "n", "t">>)

\* A blocking answer to a non-empty query, returned as the second request
\* while a streaming session is between two of its fragments.
C12_Witness ==
    /\ req.phase = "done" /\ req.core = 1
    /\ req.route \in {"query_agent", "query_agent_auth"}
    /\ req.query # <<>>
    /\ served = 2
    /\ \E i \in DOMAIN sessions :
           sessions[i].state = "Active" /\ sessions[i].pos >= 2

----------------------------------------------------------------------------
(* Where the producer suspends.                                            *)

\* C14: generate_response_stream awaits asyncio.sleep once between two
\* consecutive fragments and nowhere else: none before the prefix, one after
\* each fragment that has a successor, none after the last, which makes
\* wordCount(body) of them in a complete stream; a session that has not
\* ended is seen by the other steps only before its first turn or suspended
\* on such a sleep; and a request on the blocking route is never seen
\* between its start and its answer.
C14_SuspendsBetweenFragments ==
    /\ \A i \in DOMAIN sessions :
           LET s == sessions[i]
           IN  /\ s.pos = 0 => (s.sleeps = 0 /\ ~s.timer)
               /\ (s.state = "Active" /\ s.pos >= 1) =>
                      (s.timer /\ s.sleeps = s.pos)
               /\ s.state = "Completed" =>
                      /\ ~s.timer
                      /\ s.sleeps = Len(BodyWords)
                      /\ s.sleeps = Len(s.frames) - 1
               /\ s.state = "Cancelled" =>
                      (~s.timer /\ s.sleeps = Len(s.frames))
               /\ s.sleeps <= Len(BodyWords)
    /\ req.route = "query_agent" =>
           (req.phase = "done" /\ req.core = 1 /\ req.body.some)
    /\ (req.route = "query_agent_auth" /\ req.core = 1) =>
           (req.phase = "done" /\ req.body.some)

\* One session has completed after its eleven sleeps while another is
\* suspended on its third.
C14_Witness ==
    \E i, j \in DOMAIN sessions :
        /\ sessions[i].state = "Completed"
        /\ sessions[i].sleeps = 11
        /\ sessions[j].state = "Active"
        /\ sessions[j].timer
        /\ sessions[j].sleeps = 3

----------------------------------------------------------------------------
(* The shared configuration.                                               *)

\* C15: no step changes the configured secret, be it a request on any
\* route, a dependency, a turn of a session or a cancellation; and every
\* request that arrives on a protected route is decided by comparing its
\* key with that same secret.
C15_ConfigurationFixed ==
    [][/\ api_key' = api_key
       /\ (served' # served /\ req'.route \in ProtectedRoutes) =>
              req'.gate = verify_api_key(api_key', req'.key)]_vars

\* With a secret configured and one session cancelled midway, a request
\* with another key has been refused 403.
C15_Witness ==
    /\ api_key = Some(<<"s">>)
    /\ req.route \in ProtectedRoutes
    /\ req.key = Some(<<"w">>)
    /\ req.gate = Forbidden
    /\ \E i \in DOMAIN sessions :
           sessions[i].state = "Cancelled" /\ sessions[i].pos >= 2

----------------------------------------------------------------------------
(* Completion of a stream.                                                 *)

\* Session i has had all its frames delivered and its transport closed
\* normally.
CompletedInFull(i) ==
    /\ i \in DOMAIN sessions
    /\ sessions[i].state = "Completed"
    /\ sessions[i].closed
    /\ Len(sessions[i].frames) = 1 + Len(BodyWords)

\* C13 as stated: with clients that stay connected and an agent that does
\* not raise, every streaming request the gate allows has a session, on the
\* route with the dependency as on the one without it, and every session
\* eventually has its 1 + wordCount(body) frames delivered and is Completed
\* with its transport closed.
C13_AllowedStreamCompletes ==
    /\ [](/\ req.route \in {"stream_agent", "stream_agent_auth"}
          /\ req.phase = "done"
          /\ req.gate \in {NotRun, Allow}
          => req.sid \in DOMAIN sessions)
    /\ \A i \in 1..MaxRequests :
           (i \in DOMAIN sessions) ~> CompletedInFull(i)

----------------------------------------------------------------------------
(* A fault or a cancellation is local.                                     *)

\* C16: the step that cancels or faults one session changes no other
\* session; in a run of finitely many requests every session, accepted
\* before or after such a step, comes to an end for good, which for a
\* session not itself cancelled or faulted is Completed with all its
\* frames; and the frames of a Completed session are the frames of its own
\* fragments in order.
C16_FaultIsLocal ==
    /\ [][\A i \in DOMAIN sessions :
             (/\ sessions[i].state = "Active"
              /\ sessions'[i].state \in {"Cancelled", "Faulted"}) =>
                 \A j \in DOMAIN sessions \ {i} :
                     sessions'[j] = sessions[j]]_vars
    /\ <>[](\A i \in DOMAIN sessions :
               \/ CompletedInFull(i)
               \/ sessions[i].state \in {"Cancelled", "Faulted"})
    /\ [](\A i \in DOMAIN sessions :
             sessions[i].state = "Completed" =>
                 /\ CompletedInFull(i)
                 /\ \A k \in 1..Len(sessions[i].frames) :
                        client_token(sessions[i].frames[k]) =
                            Some(NextFragment(sessions[i].query, k - 1)))

\* The first session faulted after two frames; the second, accepted with
\* another query, has completed in full.
C16_Witness ==
    /\ Len(sessions) >= 2
    /\ sessions[1].state = "Faulted"
    /\ Len(sessions[1].frames) = 2
    /\ sessions[2].query # sessions[1].query
    /\ CompletedInFull(2)

----------------------------------------------------------------------------
(* The two streaming endpoints.                                            *)

\* The value of the data field of an event as a client reads it: the first
\* line, up to its CR or LF, after "data: ".
RECURSIVE DataLine(_)
DataLine(s) ==
    IF s = <<>> \/ Head(s) \in {"\r", "\n"} THEN <<>>
    ELSE <<Head(s)>> \o DataLine(Tail(s))

DataField(write) ==
    LET line == DataLine(write)
    IN  IF Len(line) >= 6
           /\ SubSeq(line, 1, 6) = <<"d", "a", "t", "a", ":", " ">>
        THEN Some(SubSeq(line, 7, Len(line)))
        ELSE None

\* C17: a session of stream_agent and a session of stream_agent_sse with
\* the same query consume the same fragments and deliver the same payloads
\* in the same order: the k-th event of each has as its data the JSON
\* object {"token": <the k-th fragment>}, one event per fragment, and when
\* both have completed they have delivered as many.
C17_SameTokenPayloads ==
    \A i, j \in DOMAIN sessions :
        (~sessions[i].sse /\ sessions[j].sse
            /\ sessions[i].query = sessions[j].query) =>
            /\ \A k \in 1..Len(sessions[i].frames) :
                   /\ DataField(sessions[i].frames[k]) =
                          Some(json_dumps(sessions[i].frags[k]))
                   /\ k <= Len(sessions[j].frames) =>
                          /\ sessions[j].frags[k] = sessions[i].frags[k]
                          /\ DataField(sessions[j].frames[k]) =
                                 DataField(sessions[i].frames[k])
            /\ \A k \in 1..Len(sessions[j].frames) :
                   DataField(sessions[j].frames[k]) =
                       Some(<<"{", "\"", "t", "o", "k", "e", "n", "\"", ":",
                              " ", "\"">>
                            \o Escape(NextFragment(sessions[j].query, k - 1))
                            \o <<"\"", "}">>)
            /\ (sessions[i].state = "Completed"
                   /\ sessions[j].state = "Completed") =>
                   /\ Len(sessions[i].frames) = Len(sessions[j].frames)
                   /\ Len(sessions[j].frames) = Len(sessions[j].frags)

\* Both endpoints have completed a stream for the same query, which holds
\* a quote.
C17_Witness ==
    \E i, j \in DOMAIN sessions :
        /\ ~sessions[i].sse /\ sessions[j].sse
        /\ sessions[i].query = <<"\"">>
        /\ sessions[j].query = <<"\"">>
        /\ sessions[i].state = "Completed"
        /\ sessions[j].state = "Completed"
        /\ Len(sessions[j].frames) = 12

====
